---- MODULE Spec2Model ----
(***************************************************************************)
(* csv2markup: the column-width-aware table renderer (Processor and its    *)
(* dialects RST, Markdown, Dokuwiki, HTML) and the driver loop of main().  *)
(*                                                                         *)
(* A string is a sequence of one-character strings, a row is a sequence of *)
(* cells (strings), a table is a sequence of rows, and the output is the   *)
(* sequence of lines the renderer has yielded so far.                      *)
(***************************************************************************)
EXTENDS Integers, Sequences, FiniteSets, TLC

VARIABLES
    dialect,     \* the Processor subclass chosen from FORMATS
    stream,      \* the rows the csv reader hands to the Processor
    data,        \* Processor.data
    lengths,     \* Processor.lengths
    border,      \* RST.border
    separator,   \* RST.separator
    pc,          \* where the renderer is: new, header, body, done, error
    pos,         \* 1-based index in data of the next row __iter__ renders
    out,         \* the lines yielded so far
    dpc,         \* where main() is in its loop over args
    idx,         \* 1-based index in args of the current fname
    optStdout,   \* options.stdout
    optForce,    \* options.force
    inOpened,    \* per input: how many times file(fname, "rb") succeeded
    inClosed,    \* per input: how many times f.close() ran
    outOpened,   \* per input: how many times file(output_name, "wb") succeeded
    outClosed,   \* per input: how many times output_file.close() ran
    stdoutClosed,\* how many times sys.stdout was closed
    result,      \* per input: what became of its conversion
    reported     \* per input: whether a message about it went to stderr

rvars == <<dialect, stream, data, lengths, border, separator, pc, pos, out>>
dvars == <<dpc, idx, optStdout, optForce, inOpened, inClosed, outOpened,
           outClosed, stdoutClosed, result, reported>>
vars == <<dialect, stream, data, lengths, border, separator, pc, pos, out,
          dpc, idx, optStdout, optForce, inOpened, inClosed, outOpened,
          outClosed, stdoutClosed, result, reported>>

(***************************************************************************)
(* Bounds of the model.                                                    *)
(***************************************************************************)
MaxRows == 3
MaxCols == 2
MaxCells == 4
NumFiles == 2

(***************************************************************************)
(* String helpers: Python's str operations on sequences of characters.     *)
(***************************************************************************)
Min(a, b) == IF a < b THEN a ELSE b

\* char * n
Repeat(ch, n) == [i \in 1..n |-> ch]

RECURSIVE Concat(_)
\* "".join(parts)
Concat(parts) ==
    IF parts = <<>> THEN <<>> ELSE Head(parts) \o Concat(Tail(parts))

RECURSIVE Join(_, _)
\* sep.join(parts)
Join(sep, parts) ==
    IF parts = <<>> THEN <<>>
    ELSE IF Len(parts) = 1 THEN Head(parts)
    ELSE Head(parts) \o sep \o Join(sep, Tail(parts))

RECURSIVE Replace(_, _, _)
\* s.replace(old, new) for a one-character old
Replace(s, old, new) ==
    IF s = <<>> THEN <<>>
    ELSE (IF Head(s) = old THEN new ELSE <<Head(s)>>) \o Replace(Tail(s), old, new)

\* "%-*s" % (length, s): left-justified in a field of at least length
LJust(length, s) ==
    IF Len(s) >= length THEN s ELSE s \o Repeat(" ", length - Len(s))

\* " %-*s  " % (length, s)
FormatCell(length, s) == <<" ">> \o LJust(length, s) \o <<" ", " ">>

RECURSIVE SeqMax(_)
\* max(...) of a non-empty sequence of numbers
SeqMax(ns) ==
    IF Len(ns) = 1 THEN Head(ns)
    ELSE LET m == SeqMax(Tail(ns)) IN IF Head(ns) > m THEN Head(ns) ELSE m

RECURSIVE SeqMin(_)
SeqMin(ns) ==
    IF Len(ns) = 1 THEN Head(ns)
    ELSE LET m == SeqMin(Tail(ns)) IN IF Head(ns) < m THEN Head(ns) ELSE m

(***************************************************************************)
(* Processor                                                               *)
(***************************************************************************)
Dialects == {"rst", "markdown", "dokuwiki", "html"}
PaddingDialects == {"rst", "markdown", "dokuwiki"}

CORNER == <<"+">>
DELIM == <<"|">>
HEADER_DELIM == <<"^">>

IsNonEmpty(row) == row # <<>>

\* a variant of ProcessorData that keeps the zero-cell rows
ProcessorDataAll(rows) == rows

\* self.data = [row for row in stream if row]
ProcessorData(rows) == SelectSeq(rows, IsNonEmpty)

\* itertools.izip(*rows): one tuple per column, stopping at the shortest row
Izip(rows) ==
    IF rows = <<>> THEN <<>>
    ELSE LET n == SeqMin([r \in 1..Len(rows) |-> Len(rows[r])])
         IN  [i \in 1..n |-> [r \in 1..Len(rows) |-> rows[r][i]]]

\* a variant of Lengths that measures the header row alone
LengthsOfHeader(rows) ==
    IF rows = <<>> THEN <<>>
    ELSE [i \in 1..Len(rows[1]) |-> Len(rows[1][i])]

\* [max(len(val) for val in col) for col in itertools.izip(*self.data)]
Lengths(rows) ==
    LET cols == Izip(rows)
    IN  [i \in 1..Len(cols) |->
            SeqMax([r \in 1..Len(cols[i]) |-> Len(cols[i][r])])]

\* a variant of Zip that goes on to the end of the row, with width 0 for
\* the cells that have no width
ZipLongest(ls, row) ==
    [i \in 1..Len(row) |-> <<IF i <= Len(ls) THEN ls[i] ELSE 0, row[i]>>]

\* zip(self.lengths, row): pairs, stopping at the shorter of the two
Zip(ls, row) ==
    [i \in 1..Min(Len(ls), Len(row)) |-> <<ls[i], row[i]>>]

\* a variant of CgiEscape that replaces the ampersand last
CgiEscapeAmpLast(s) ==
    Replace(Replace(Replace(s, "<", <<"&", "l", "t", ";">>),
                    ">", <<"&", "g", "t", ";">>),
            "&", <<"&", "a", "m", "p", ";">>)

\* cgi.escape(s)
CgiEscape(s) ==
    Replace(Replace(Replace(s, "&", <<"&", "a", "m", "p", ";">>),
                    "<", <<"&", "l", "t", ";">>),
            ">", <<"&", "g", "t", ";">>)

\* s.replace("\\", "\\\\").replace("|", "\\|")
BackslashEscape(s) ==
    Replace(Replace(s, "\\", <<"\\", "\\">>), "|", <<"\\", "|">>)

\* clean() of each class
Clean(d, s) ==
    CASE d = "rst" -> BackslashEscape(s)
      [] d = "markdown" -> BackslashEscape(s)
      [] d = "html" -> CgiEscape(s)
      [] OTHER -> s

\* a variant of DelimitedRow without the closing delimiter
DelimitedRowOpen(d, delim, ls, row) ==
    LET pairs == Zip(ls, row)
    IN  delim
        \o Join(delim, [i \in 1..Len(pairs) |->
                            FormatCell(pairs[i][1], Clean(d, pairs[i][2]))])

\* delim + delim.join(" %-*s  " % (length, self.clean(cell)) ...) + delim
DelimitedRow(d, delim, ls, row) ==
    LET pairs == Zip(ls, row)
    IN  delim
        \o Join(delim, [i \in 1..Len(pairs) |->
                            FormatCell(pairs[i][1], Clean(d, pairs[i][2]))])
        \o delim

\* a variant of RSTRule with (length + 2) fill characters per column
RSTRuleNarrow(char, ls) ==
    CORNER
    \o Join(CORNER, [i \in 1..Len(ls) |-> Repeat(char, ls[i] + 2)])
    \o CORNER

\* CORNER + CORNER.join(char * (length+3) for length in self.lengths) + CORNER
RSTRule(char, ls) ==
    CORNER
    \o Join(CORNER, [i \in 1..Len(ls) |-> Repeat(char, ls[i] + 3)])
    \o CORNER

\* a variant of MarkdownRule with length dashes and two trailing spaces
MarkdownRuleShort(ls) ==
    DELIM
    \o Join(DELIM, [i \in 1..Len(ls) |->
                        <<" ">> \o Repeat("-", ls[i]) \o <<" ", " ">>])
    \o DELIM

\* DELIM + DELIM.join(" %s " % ('-' * (length+1)) ...) + DELIM
MarkdownRule(ls) ==
    DELIM
    \o Join(DELIM, [i \in 1..Len(ls) |->
                        <<" ">> \o Repeat("-", ls[i] + 1) \o <<" ">>])
    \o DELIM

Str_tr == <<"<", "t", "r", ">">>
Str_tr_end == <<"<", "/", "t", "r", ">">>
Str_table == <<"<", "t", "a", "b", "l", "e", ">">>
Str_table_end == <<"<", "/", "t", "a", "b", "l", "e", ">">>
Str_thead == <<"<", "t", "h", "e", "a", "d", ">">>
Str_thead_end == <<"<", "/", "t", "h", "e", "a", "d", ">">>
Str_tbody == <<"<", "t", "b", "o", "d", "y", ">">>
Str_tbody_end == <<"<", "/", "t", "b", "o", "d", "y", ">">>

\* "<tr>" + "".join("<tag>%s</tag>" % self.clean(cell) for cell in row) + "</tr>"
HtmlRow(tag, ls, row) ==
    Str_tr
    \o Concat([i \in 1..Len(row) |->
                  <<"<", "t", tag, ">">> \o Clean("html", row[i])
                  \o <<"<", "/", "t", tag, ">">>])
    \o Str_tr_end

\* process_regular_row of each class: the lines it yields
ProcessRegularRow(d, ls, row) ==
    CASE d \in PaddingDialects -> <<DelimitedRow(d, DELIM, ls, row)>>
      [] d = "html" -> <<HtmlRow("d", ls, row)>>

\* process_header_row of each class: the lines it yields
ProcessHeaderRow(d, ls, bd, sp, row) ==
    CASE d = "rst" -> <<bd>> \o ProcessRegularRow(d, ls, row) \o <<sp>>
      [] d = "markdown" -> ProcessRegularRow(d, ls, row) \o <<MarkdownRule(ls)>>
      [] d = "dokuwiki" -> <<DelimitedRow(d, HEADER_DELIM, ls, row)>>
      [] d = "html" -> <<Str_table, Str_thead, HtmlRow("h", ls, row),
                         Str_thead_end, Str_tbody>>

\* post of each class: the lines it yields
Post(d, bd) ==
    CASE d = "rst" -> <<bd>>
      [] d = "html" -> <<Str_tbody_end, Str_table_end>>
      [] OTHER -> <<>>

\* list(processor(rows)): every line a Processor of class d yields for rows
ListProcessor(d, rows) ==
    LET dt == ProcessorData(rows)
        ls == Lengths(dt)
        bd == IF d = "rst" THEN RSTRule("-", ls) ELSE <<>>
        sp == IF d = "rst" THEN RSTRule("=", ls) ELSE <<>>
    IN  IF dt = <<>> THEN <<>>
        ELSE ProcessHeaderRow(d, ls, bd, sp, dt[1])
             \o Concat([k \in 1..(Len(dt) - 1) |->
                           ProcessRegularRow(d, ls, dt[k + 1])])
             \o Post(d, bd)

(***************************************************************************)
(* The inputs: every stream of at most MaxRows rows of at most MaxCols     *)
(* cells with at most MaxCells cells in all, and the documented scenarios. *)
(***************************************************************************)
CellsFor(d) ==
    IF d = "html"
    THEN {<<>>, <<"<">>, <<"&", "\"">>}
    ELSE {<<>>, <<"|">>, <<"\\", "b">>}

RowsOfLen(d, n) == [1..n -> CellsFor(d)]

RECURSIVE Streams(_, _, _)
Streams(d, nrows, ncells) ==
    IF nrows = 0 THEN {<<>>}
    ELSE {<<>>} \cup
         UNION {{<<row>> \o rest : row \in RowsOfLen(d, n),
                                   rest \in Streams(d, nrows - 1, ncells - n)}
                : n \in 0..Min(MaxCols, ncells)}

NameAge ==
    << << <<"N", "a", "m", "e">>, <<"A", "g", "e">> >>,
       << <<"A", "l">>, <<"3", "0">> >> >>

ABCD ==
    << << <<"a">>, <<"b", "b">> >>,
       << <<"c", "c", "c">>, <<"d">> >> >>

AX ==
    << << <<"A">> >>, << <<"<", "x", ">">> >> >>

Ragged ==
    << <<>>,
       << <<"h", "|">>, <<"&">>, <<"x">> >>,
       <<>>,
       << <<"\\">>, <<"\"", ">">> >>,
       << <<"p", "q", "r">>, <<>>, <<"<">>, <<"z">> >> >>

Scenarios == {NameAge, ABCD, AX, Ragged}

Idle == [i \in 1..NumFiles |-> 0]

DriverIdle ==
    /\ dpc = "off"
    /\ idx = 0
    /\ optStdout = FALSE
    /\ optForce = FALSE
    /\ inOpened = Idle
    /\ inClosed = Idle
    /\ outOpened = Idle
    /\ outClosed = Idle
    /\ stdoutClosed = 0
    /\ result = [i \in 1..NumFiles |-> "pending"]
    /\ reported = [i \in 1..NumFiles |-> FALSE]

\* processor(r) is about to be called
Init ==
    /\ dialect \in Dialects
    /\ stream \in Streams(dialect, MaxRows, MaxCells) \cup Scenarios
    /\ data = <<>>
    /\ lengths = <<>>
    /\ border = <<>>
    /\ separator = <<>>
    /\ pc = "new"
    /\ pos = 0
    /\ out = <<>>
    /\ DriverIdle

\* max(len(val) for val in col) raises ValueError for a column without cells
MaxRaises(rows) == \E i \in 1..Len(Izip(rows)) : Izip(rows)[i] = <<>>

\* Processor.__init__, and RST.__init__ after it for the RST class
Construct ==
    /\ pc = "new"
    /\ data' = ProcessorData(stream)
    /\ IF MaxRaises(data')
       THEN /\ pc' = "error"
            /\ UNCHANGED <<lengths, border, separator>>
       ELSE /\ lengths' = Lengths(data')
            /\ border' = IF dialect = "rst" THEN RSTRule("-", lengths') ELSE <<>>
            /\ separator' = IF dialect = "rst" THEN RSTRule("=", lengths') ELSE <<>>
            /\ pc' = "header"
    /\ UNCHANGED <<dialect, stream, pos, out>>
    /\ UNCHANGED dvars

\* __iter__: next(i) on an empty data ends the generator (StopIteration)
IterEmpty ==
    /\ pc = "header"
    /\ data = <<>>
    /\ pc' = "done"
    /\ UNCHANGED <<dialect, stream, data, lengths, border, separator, pos, out>>
    /\ UNCHANGED dvars

\* __iter__: the lines of process_header_row(next(i))
IterHeader ==
    /\ pc = "header"
    /\ data # <<>>
    /\ out' = out \o ProcessHeaderRow(dialect, lengths, border, separator, data[1])
    /\ pos' = 2
    /\ pc' = "body"
    /\ UNCHANGED <<dialect, stream, data, lengths, border, separator>>
    /\ UNCHANGED dvars

\* __iter__: the lines of process_regular_row(row) for the next row
IterRow ==
    /\ pc = "body"
    /\ pos <= Len(data)
    /\ out' = out \o ProcessRegularRow(dialect, lengths, data[pos])
    /\ pos' = pos + 1
    /\ UNCHANGED <<dialect, stream, data, lengths, border, separator, pc>>
    /\ UNCHANGED dvars

\* __iter__: the lines of post()
IterPost ==
    /\ pc = "body"
    /\ pos > Len(data)
    /\ out' = out \o Post(dialect, border)
    /\ pc' = "done"
    /\ UNCHANGED <<dialect, stream, data, lengths, border, separator, pos>>
    /\ UNCHANGED dvars

Next == Construct \/ IterEmpty \/ IterHeader \/ IterRow \/ IterPost

Spec == Init /\ [][Next]_vars

(***************************************************************************)
(* main(): the loop over the file names of the command line.  What the     *)
(* file system answers (open fails, output exists, a read or a write       *)
(* raises) is the environment's choice at each step.                       *)
(***************************************************************************)
OutputKinds == {"absent", "file", "directory"}

RendererIdle ==
    /\ dialect = "rst"
    /\ stream = <<>>
    /\ data = <<>>
    /\ lengths = <<>>
    /\ border = <<>>
    /\ separator = <<>>
    /\ pc = "off"
    /\ pos = 0
    /\ out = <<>>

\* main() has parsed its options and enters `for fname in args`
DriverInit ==
    /\ RendererIdle
    /\ dpc = "loop"
    /\ idx = 1
    /\ optStdout \in BOOLEAN
    /\ optForce \in BOOLEAN
    /\ inOpened = Idle
    /\ inClosed = Idle
    /\ outOpened = Idle
    /\ outClosed = Idle
    /\ stdoutClosed = 0
    /\ result = [i \in 1..NumFiles |-> "pending"]
    /\ reported = [i \in 1..NumFiles |-> FALSE]

Bump(f) == [f EXCEPT ![idx] = @ + 1]

\* finally: f.close()
CloseInput == inClosed' = Bump(inClosed)

\* finally: if not options.stdout: output_file.close()
CloseOutput ==
    /\ outClosed' = IF optStdout THEN outClosed ELSE Bump(outClosed)
    /\ UNCHANGED stdoutClosed

\* f = file(fname, "rb") raises IOError: "Could not open", next fname
OpenInputFails ==
    /\ dpc = "loop"
    /\ idx <= NumFiles
    /\ reported' = [reported EXCEPT ![idx] = TRUE]
    /\ result' = [result EXCEPT ![idx] = "could_not_open"]
    /\ idx' = idx + 1
    /\ UNCHANGED <<dpc, optStdout, optForce, inOpened, inClosed, outOpened,
                   outClosed, stdoutClosed>>
    /\ UNCHANGED rvars

\* f = file(fname, "rb") succeeds; r = csv.reader(f, ...)
OpenInput ==
    /\ dpc = "loop"
    /\ idx <= NumFiles
    /\ inOpened' = Bump(inOpened)
    /\ dpc' = "opened"
    /\ UNCHANGED <<idx, optStdout, optForce, inClosed, outOpened, outClosed,
                   stdoutClosed, result, reported>>
    /\ UNCHANGED rvars

\* output_file = sys.stdout
UseStdout ==
    /\ dpc = "opened"
    /\ optStdout
    /\ dpc' = "ready"
    /\ UNCHANGED <<idx, optStdout, optForce, inOpened, inClosed, outOpened,
                   outClosed, stdoutClosed, result, reported>>
    /\ UNCHANGED rvars

\* a variant of SkipExisting that leaves the loop body without f.close()
SkipExistingLeak ==
    /\ dpc = "opened"
    /\ ~optStdout
    /\ \E kind \in OutputKinds : kind # "absent" /\ ~optForce
    /\ reported' = [reported EXCEPT ![idx] = TRUE]
    /\ result' = [result EXCEPT ![idx] = "skipped"]
    /\ idx' = idx + 1
    /\ dpc' = "loop"
    /\ UNCHANGED <<optStdout, optForce, inOpened, inClosed, outOpened,
                   outClosed, stdoutClosed>>
    /\ UNCHANGED rvars

\* the output exists and --force is off: "already exists. Skipping.", continue
SkipExisting ==
    /\ dpc = "opened"
    /\ ~optStdout
    /\ \E kind \in OutputKinds : kind # "absent" /\ ~optForce
    /\ reported' = [reported EXCEPT ![idx] = TRUE]
    /\ result' = [result EXCEPT ![idx] = "skipped"]
    /\ CloseInput
    /\ idx' = idx + 1
    /\ dpc' = "loop"
    /\ UNCHANGED <<optStdout, optForce, inOpened, outOpened, outClosed,
                   stdoutClosed>>
    /\ UNCHANGED rvars

\* the output exists, --force is on, it is no file: "isn't a file. Skipping."
SkipNotAFile ==
    /\ dpc = "opened"
    /\ ~optStdout
    /\ \E kind \in OutputKinds : kind = "directory" /\ optForce
    /\ reported' = [reported EXCEPT ![idx] = TRUE]
    /\ result' = [result EXCEPT ![idx] = "skipped"]
    /\ CloseInput
    /\ idx' = idx + 1
    /\ dpc' = "loop"
    /\ UNCHANGED <<optStdout, optForce, inOpened, outOpened, outClosed,
                   stdoutClosed>>
    /\ UNCHANGED rvars

\* whether main() goes on to file(output_name, "wb")
MayOpenOutput(kind) == kind = "absent" \/ (optForce /\ kind = "file")

\* output_file = file(output_name, "wb") succeeds
OpenOutput ==
    /\ dpc = "opened"
    /\ ~optStdout
    /\ \E kind \in OutputKinds : MayOpenOutput(kind)
    /\ outOpened' = Bump(outOpened)
    /\ dpc' = "ready"
    /\ UNCHANGED <<idx, optStdout, optForce, inOpened, inClosed, outClosed,
                   stdoutClosed, result, reported>>
    /\ UNCHANGED rvars

\* output_file = file(output_name, "wb") raises IOError: the outer finally
\* closes f and the exception leaves main()
OpenOutputFails ==
    /\ dpc = "opened"
    /\ ~optStdout
    /\ \E kind \in OutputKinds : MayOpenOutput(kind)
    /\ result' = [result EXCEPT ![idx] = "output_error"]
    /\ CloseInput
    /\ dpc' = "raised"
    /\ UNCHANGED <<idx, optStdout, optForce, inOpened, outOpened, outClosed,
                   stdoutClosed, reported>>
    /\ UNCHANGED rvars

\* for row in processor(r): write ... runs to its end; both finally blocks
Convert ==
    /\ dpc = "ready"
    /\ result' = [result EXCEPT ![idx] = "converted"]
    /\ CloseOutput
    /\ CloseInput
    /\ idx' = idx + 1
    /\ dpc' = "loop"
    /\ UNCHANGED <<optStdout, optForce, inOpened, outOpened, reported>>
    /\ UNCHANGED rvars

\* processor(r) raises while it reads the rows of f (IOError, csv.Error):
\* both finally blocks run and the exception leaves main()
ReadRaises ==
    /\ dpc = "ready"
    /\ result' = [result EXCEPT ![idx] = "read_error"]
    /\ CloseOutput
    /\ CloseInput
    /\ dpc' = "raised"
    /\ UNCHANGED <<idx, optStdout, optForce, inOpened, outOpened, reported>>
    /\ UNCHANGED rvars

\* output_file.write raises partway through: both finally blocks run and the
\* exception leaves main()
WriteRaises ==
    /\ dpc = "ready"
    /\ result' = [result EXCEPT ![idx] = "write_error"]
    /\ CloseOutput
    /\ CloseInput
    /\ dpc' = "raised"
    /\ UNCHANGED <<idx, optStdout, optForce, inOpened, outOpened, reported>>
    /\ UNCHANGED rvars

\* args is exhausted: main() returns
LoopEnd ==
    /\ dpc = "loop"
    /\ idx > NumFiles
    /\ dpc' = "exit"
    /\ UNCHANGED <<idx, optStdout, optForce, inOpened, inClosed, outOpened,
                   outClosed, stdoutClosed, result, reported>>
    /\ UNCHANGED rvars

DriverNext ==
    \/ OpenInputFails
    \/ OpenInput
    \/ UseStdout
    \/ SkipExisting
    \/ SkipNotAFile
    \/ OpenOutput
    \/ OpenOutputFails
    \/ Convert
    \/ ReadRaises
    \/ WriteRaises
    \/ LoopEnd

DriverSpec == DriverInit /\ [][DriverNext]_vars

(***************************************************************************)
(* What the claims are stated with.  Nothing below is used by the model:   *)
(* the expected lines are written column by column and character by        *)
(* character, independently of the operators above.                        *)
(***************************************************************************)
\* the number of occurrences of the character ch in s
Count(s, ch) == Cardinality({i \in 1..Len(s) : s[i] = ch})

RECURSIVE CountInCells(_, _, _)
\* the number of occurrences of ch in the first n cells of row
CountInCells(row, n, ch) ==
    IF n = 0 THEN 0 ELSE Count(row[n], ch) + CountInCells(row, n - 1, ch)

RECURSIVE Retained(_)
\* rows with its zero-cell rows removed
Retained(rows) ==
    IF rows = <<>> THEN <<>>
    ELSE IF Len(Head(rows)) = 0 THEN Retained(Tail(rows))
    ELSE <<Head(rows)>> \o Retained(Tail(rows))

RECURSIVE Sum(_)
Sum(ns) == IF ns = <<>> THEN 0 ELSE Head(ns) + Sum(Tail(ns))

\* all retained rows have the same number of columns
EqualRows == \A r1, r2 \in 1..Len(data) : Len(data[r1]) = Len(data[r2])

\* the renderer has yielded the header lines
HeaderDone == pc \in {"body", "done"} /\ data # <<>>

\* how many lines the header phase of a dialect yields
HeaderLineCount(d) ==
    CASE d = "rst" -> 3
      [] d = "markdown" -> 2
      [] d = "dokuwiki" -> 1
      [] d = "html" -> 5

\* where in the output the header cells line is
HeaderLineAt(d) ==
    CASE d = "rst" -> 2
      [] d = "markdown" -> 1
      [] d = "dokuwiki" -> 1
      [] d = "html" -> 3

\* the data rows whose body line has been yielded
RenderedBodyRows == IF HeaderDone THEN 2..(pos - 1) ELSE {}

\* the body line yielded for data[k]
BodyLine(k) == out[HeaderLineCount(dialect) + k - 1]

\* the header cells line
HeaderLine == out[HeaderLineAt(dialect)]

\* the escaped form of one character in the Grid and Markdown dialects
EscapedChar(d, ch) ==
    IF d \in {"rst", "markdown"} /\ ch \in {"\\", "|"} THEN <<"\\", ch>> ELSE <<ch>>

RECURSIVE Escaped(_, _)
Escaped(d, s) ==
    IF s = <<>> THEN <<>> ELSE EscapedChar(d, Head(s)) \o Escaped(d, Tail(s))

RECURSIVE Spaces(_)
Spaces(n) == IF n <= 0 THEN <<>> ELSE <<" ">> \o Spaces(n - 1)

RECURSIVE ExpectedCells(_, _, _, _, _)
\* the cells i.. of a delimited line over the columns that have a width
ExpectedCells(d, delim, ws, row, i) ==
    IF i > Len(ws) THEN <<>>
    ELSE LET v == Escaped(d, row[i])
         IN  <<" ">> \o v \o Spaces(ws[i] - Len(v)) \o <<" ", " ", delim>>
             \o ExpectedCells(d, delim, ws, row, i + 1)

ExpectedLine(d, delim, ws, row) == <<delim>> \o ExpectedCells(d, delim, ws, row, 1)

RECURSIVE ExpectedRule(_, _)
\* '+', then per column (width + 3) fill characters and a '+'
ExpectedRule(fill, ws) ==
    IF ws = <<>> THEN <<"+">>
    ELSE <<"+">> \o [i \in 1..(Head(ws) + 3) |-> fill] \o ExpectedRule(fill, Tail(ws))

\* the entity of one character; the quote character only when withQuote
Entity(ch, withQuote) ==
    CASE ch = "&" -> <<"&", "a", "m", "p", ";">>
      [] ch = "<" -> <<"&", "l", "t", ";">>
      [] ch = ">" -> <<"&", "g", "t", ";">>
      [] ch = "\"" /\ withQuote -> <<"&", "q", "u", "o", "t", ";">>
      [] OTHER -> <<ch>>

RECURSIVE Entities(_, _)
Entities(s, withQuote) ==
    IF s = <<>> THEN <<>>
    ELSE Entity(Head(s), withQuote) \o Entities(Tail(s), withQuote)

RECURSIVE ExpectedTags(_, _, _, _)
ExpectedTags(tag, row, i, withQuote) ==
    IF i > Len(row) THEN <<>>
    ELSE <<"<", "t", tag, ">">> \o Entities(row[i], withQuote)
         \o <<"<", "/", "t", tag, ">">> \o ExpectedTags(tag, row, i + 1, withQuote)

ExpectedHtmlRow(tag, row, withQuote) ==
    <<"<", "t", "r", ">">> \o ExpectedTags(tag, row, 1, withQuote)
    \o <<"<", "/", "t", "r", ">">>

(***************************************************************************)
(* C1                                                                      *)
(***************************************************************************)
\* C1 (as stated): in the Grid, Markdown and Wiki dialects, for a table whose
\* rows all have c columns, every body line holds exactly c + 1 occurrences
\* of '|', whatever the cells contain.
C1_BodyLineHasColumnsPlusOneDelimiters ==
    (dialect \in PaddingDialects /\ HeaderDone /\ EqualRows) =>
        \A k \in RenderedBodyRows :
            Count(BodyLine(k), "|") = Len(data[1]) + 1

\* C1 (amended): every such body line holds exactly c + 1 occurrences of '|'
\* plus one for each '|' in the cells of its row, so exactly c + 1 when no
\* cell of the row holds a '|'.
C1_BodyLineDelimitersPlusCellPipes ==
    (dialect \in PaddingDialects /\ HeaderDone /\ EqualRows) =>
        \A k \in RenderedBodyRows :
            Count(BodyLine(k), "|") =
                Len(data[1]) + 1 + CountInCells(data[k], Len(data[k]), "|")

\* C1 witness: a Grid table of two columns is rendered whose body row has a
\* cell with the delimiter in it and a cell with a backslash in it.
C1_Witness ==
    /\ dialect = "rst"
    /\ pc = "done"
    /\ Len(data) = 2
    /\ EqualRows
    /\ Len(data[1]) = 2
    /\ data[2][1] = <<"|">>
    /\ data[2][2] = <<"\\", "b">>

(***************************************************************************)
(* C2                                                                      *)
(***************************************************************************)
\* C2: in the padding dialects, for a table with equal-length rows, every
\* header and body line is: a delimiter, then per column a space, the escaped
\* cell padded to exactly width[i] characters, two spaces and a delimiter; so
\* every row line of the table is 1 + the sum of (width[i] + 4) long.
C2_CellsPaddedToExactlyTheWidth ==
    (dialect \in PaddingDialects /\ HeaderDone /\ EqualRows) =>
        LET total == 1 + Sum(lengths) + 4 * Len(lengths)
        IN  /\ Len(HeaderLine) = total
            /\ \A k \in RenderedBodyRows : Len(BodyLine(k)) = total

(***************************************************************************)
(* C3                                                                      *)
(***************************************************************************)
\* C3: once the Processor is constructed, for every column index i that has
\* a width, width[i] is the maximum length of the raw cell at i over all
\* retained rows, the header included; there is one width per column when
\* the rows agree; no line has been yielded before; and the rows
\* [["a","bb"],["ccc","d"]] give the widths [3,2].
C3_WidthsAreColumnMaxima ==
    /\ pc = "new" => out = <<>>
    /\ pc \in {"header", "body", "done"} =>
        LET rows == Retained(stream)
        IN  /\ \A r \in 1..Len(rows) : Len(lengths) <= Len(rows[r])
            /\ \A i \in 1..Len(lengths) :
                  /\ \A r \in 1..Len(rows) : Len(rows[r][i]) <= lengths[i]
                  /\ \E r \in 1..Len(rows) : Len(rows[r][i]) = lengths[i]
            /\ (rows # <<>> /\ \A r \in 1..Len(rows) : Len(rows[r]) = Len(rows[1]))
                  => Len(lengths) = Len(rows[1])
            /\ stream = ABCD => lengths = <<3, 2>>

\* C3 witness: the scenario table is being rendered with the widths [3,2].
C3_Witness ==
    /\ stream = ABCD
    /\ pc = "body"
    /\ out # <<>>
    /\ lengths = <<3, 2>>

(***************************************************************************)
(* C4                                                                      *)
(***************************************************************************)
Line_Name_Age ==
    <<"|", " ", "N", "a", "m", "e", " ", " ", "|", " ", "A", "g", "e", " ", " ", "|">>

Line_Al_30 ==
    <<"|", " ", "A", "l", " ", " ", " ", " ", "|", " ", "3", "0", " ", " ", " ", "|">>

\* C4 (as stated): Markdown renders header ["Name","Age"] and body ["Al","30"]
\* as "| Name  | Age  |", "| ----  | ---  |", "| Al    | 30   |".
C4_MarkdownScenarioAsStated ==
    (dialect = "markdown" /\ stream = NameAge /\ pc = "done") =>
        out = << Line_Name_Age,
                 <<"|", " ", "-", "-", "-", "-", " ", " ",
                   "|", " ", "-", "-", "-", " ", " ", "|">>,
                 Line_Al_30 >>

\* C4 (amended): Markdown renders that table as "| Name  | Age  |", then the
\* separator row "| ----- | ---- |" (width + 1 dashes between single spaces),
\* then "| Al    | 30   |".
C4_MarkdownScenario ==
    (dialect = "markdown" /\ stream = NameAge /\ pc = "done") =>
        out = << Line_Name_Age,
                 <<"|", " ", "-", "-", "-", "-", "-", " ",
                   "|", " ", "-", "-", "-", "-", " ", "|">>,
                 Line_Al_30 >>

\* C4 witness: the Markdown rendering of the scenario table is complete.
C4_Witness ==
    /\ dialect = "markdown"
    /\ stream = NameAge
    /\ pc = "done"
    /\ Len(out) = 3

(***************************************************************************)
(* C5                                                                      *)
(***************************************************************************)
\* C5: for a non-empty table the Grid dialect yields exactly a border, the
\* header cells line, a separator, one line per body row in input order and
\* the same border again; border and separator are '+' then per column
\* (width + 3) fill characters and a '+', filled with '-' and '=';
\* the widths [4,3] give the border "+-------+------+".
C5_GridLineSequence ==
    (dialect = "rst" /\ pc = "done" /\ Retained(stream) # <<>>) =>
        LET rows == Retained(stream)
        IN  /\ Len(out) = Len(rows) + 3
            /\ out[1] = ExpectedRule("-", lengths)
            /\ out[2] = ExpectedLine("rst", "|", lengths, rows[1])
            /\ out[3] = ExpectedRule("=", lengths)
            /\ \A k \in 2..Len(rows) :
                  out[k + 2] = ExpectedLine("rst", "|", lengths, rows[k])
            /\ out[Len(out)] = out[1]
            /\ lengths = <<4, 3>> =>
                  out[1] = <<"+", "-", "-", "-", "-", "-", "-", "-",
                             "+", "-", "-", "-", "-", "-", "-", "+">>

\* C5 witness: the Grid rendering of a table with the widths [4,3] is
\* complete.
C5_Witness ==
    /\ dialect = "rst"
    /\ pc = "done"
    /\ stream = NameAge
    /\ lengths = <<4, 3>>
    /\ Len(out) = 5

(***************************************************************************)
(* C6                                                                      *)
(***************************************************************************)
\* C6 (as stated): HTML renders every header cell as <th>v</th> and every
\* body cell as <td>v</td>, unpadded, where v is the raw cell with every
\* '<', '>', '&' and '"' replaced by its entity; no raw quote of the cell
\* data is in the output.
C6_HtmlEscapesQuotesToo ==
    (dialect = "html" /\ HeaderDone) =>
        /\ HeaderLine = ExpectedHtmlRow("h", data[1], TRUE)
        /\ \A k \in RenderedBodyRows :
              /\ BodyLine(k) = ExpectedHtmlRow("d", data[k], TRUE)
              /\ Count(BodyLine(k), "\"") = 0

\* C6 (amended): HTML renders every header cell as <th>v</th> and every body
\* cell as <td>v</td>, unpadded, where v is the raw cell with every '<', '>'
\* and '&' replaced by its entity and every '"' left as it is; the only '<'
\* and '>' of a row line are those of its tags; "<x>" renders as
\* <td>&lt;x&gt;</td>.
C6_HtmlEscapesBracketsAndAmpersand ==
    (dialect = "html" /\ HeaderDone) =>
        /\ HeaderLine = ExpectedHtmlRow("h", data[1], FALSE)
        /\ Count(HeaderLine, "<") = 2 * Len(data[1]) + 2
        /\ \A k \in RenderedBodyRows :
              /\ BodyLine(k) = ExpectedHtmlRow("d", data[k], FALSE)
              /\ Count(BodyLine(k), "<") = 2 * Len(data[k]) + 2
              /\ Count(BodyLine(k), ">") = 2 * Len(data[k]) + 2
              /\ Count(BodyLine(k), "\"") =
                    CountInCells(data[k], Len(data[k]), "\"")
        /\ (stream = AX /\ pc = "done") =>
              /\ out[3] = <<"<", "t", "r", ">", "<", "t", "h", ">", "A",
                            "<", "/", "t", "h", ">", "<", "/", "t", "r", ">">>
              /\ out[6] = <<"<", "t", "r", ">", "<", "t", "d", ">",
                            "&", "l", "t", ";", "x", "&", "g", "t", ";",
                            "<", "/", "t", "d", ">", "<", "/", "t", "r", ">">>

\* C6 witness: an HTML table is rendered whose body row has a cell with an
\* ampersand and a quote and a cell with an angle bracket.
C6_Witness ==
    /\ dialect = "html"
    /\ pc = "done"
    /\ Len(data) = 2
    /\ Len(data[2]) = 2
    /\ data[2][1] = <<"&", "\"">>
    /\ data[2][2] = <<"<">>

(***************************************************************************)
(* C8                                                                      *)
(***************************************************************************)
\* main() is over: it returned, or an exception left it
DriverOver == dpc \in {"exit", "raised"}

\* C8: when an input of the batch cannot be opened or read, it is reported
\* and every input after it is still processed: once main() is over, no
\* input that follows a failing one is left untouched.
C8_FailingInputDoesNotAbortBatch ==
    DriverOver =>
        \A i \in 1..NumFiles :
            result[i] \in {"could_not_open", "read_error"} =>
                /\ result[i] = "could_not_open" => reported[i]
                /\ \A j \in (i + 1)..NumFiles : result[j] # "pending"

PostLineCount(d) ==
    CASE d = "rst" -> 1
      [] d = "html" -> 2
      [] OTHER -> 0

\* C7: a zero-cell row of the input, wherever it is, is never rendered and
\* does not change the widths: the rows kept are the input without its
\* zero-cell rows, the widths are those of the input without them, the
\* header rendered is the first non-empty row, and the whole output is the
\* output for the input without its zero-cell rows, one body line per
\* non-empty row after the first.
C7_EmptyRowsAreDropped ==
    LET rows == Retained(stream)
    IN  /\ pc \in {"header", "body", "done"} =>
              /\ data = rows
              /\ lengths = Lengths(rows)
        /\ (HeaderDone /\ dialect \in PaddingDialects) =>
              HeaderLine =
                  ExpectedLine(dialect, IF dialect = "dokuwiki" THEN "^" ELSE "|",
                               lengths, rows[1])
        /\ (HeaderDone /\ dialect = "html") =>
              HeaderLine = ExpectedHtmlRow("h", rows[1], FALSE)
        /\ pc = "done" =>
              /\ out = ListProcessor(dialect, rows)
              /\ rows # <<>> =>
                    Len(out) = HeaderLineCount(dialect) + (Len(rows) - 1)
                               + PostLineCount(dialect)
              /\ rows = <<>> => out = <<>>

\* C7 witness: an input with a zero-cell row before its first non-empty row
\* and another one after it is rendered to the end.
C7_Witness ==
    /\ pc = "done"
    /\ Len(stream) = 3
    /\ stream[1] = <<>>
    /\ stream[2] # <<>>
    /\ stream[3] = <<>>
    /\ out # <<>>

(***************************************************************************)
(* C10                                                                     *)
(***************************************************************************)
\* C10: with retained rows of differing lengths no error is raised and every
\* row is rendered: there are as many widths as the shortest row has cells,
\* m; in the Grid, Markdown and Wiki dialects every header and body line
\* holds exactly the first m cells of its row (m + 1 delimiters besides
\* those inside these cells); in the HTML dialect every line holds every
\* cell of its row.
C10_RaggedRowsTruncateToShortest ==
    /\ pc # "error"
    /\ (pc = "done" /\ data # <<>>) =>
          Len(out) = HeaderLineCount(dialect) + (Len(data) - 1)
                     + PostLineCount(dialect)
    /\ (pc \in {"header", "body", "done"} /\ data # <<>>) =>
          /\ \A r \in 1..Len(data) : Len(lengths) <= Len(data[r])
          /\ \E r \in 1..Len(data) : Len(lengths) = Len(data[r])
    /\ (HeaderDone /\ dialect \in PaddingDialects) =>
          LET m == Len(lengths)
              hd == IF dialect = "dokuwiki" THEN "^" ELSE "|"
          IN  /\ HeaderLine = ExpectedLine(dialect, hd, lengths, data[1])
              /\ Count(HeaderLine, hd) = m + 1 + CountInCells(data[1], m, hd)
              /\ \A k \in RenderedBodyRows :
                    /\ BodyLine(k) = ExpectedLine(dialect, "|", lengths, data[k])
                    /\ Count(BodyLine(k), "|") =
                          m + 1 + CountInCells(data[k], m, "|")
    /\ (HeaderDone /\ dialect = "html") =>
          /\ Count(HeaderLine, "<") = 2 * Len(data[1]) + 2
          /\ \A k \in RenderedBodyRows :
                Count(BodyLine(k), "<") = 2 * Len(data[k]) + 2

\* C10 witness: a Markdown table whose header has two cells and whose body
\* row has one is rendered to the end with a single width.
C10_Witness ==
    /\ dialect = "markdown"
    /\ pc = "done"
    /\ Len(data) = 2
    /\ Len(data[1]) = 2
    /\ Len(data[2]) = 1
    /\ Len(lengths) = 1
    /\ Len(out) = 3

====
